---------------------------- MODULE Spec2Model ----------------------------
(***************************************************************************)
(* LRC lyric timecodes, documents and the two-track merge of               *)
(* src/Lyrics.py (LRCParser, LyricsMerger).                                *)
(*                                                                         *)
(* A Python str is a sequence of one-character strings.  Two              *)
(* specifications share the variables:                                     *)
(*   SpecCodec  parse_lrc_time / format_lrc_time on drawn inputs;          *)
(*   Spec       parse_lrc_content and merge_lyrics on drawn texts.         *)
(***************************************************************************)
EXTENDS Integers, Sequences, FiniteSets

VARIABLES
    pc,                 \* position of the caller
    time_str,           \* argument of parse_lrc_time / value of format_lrc_time
    milliseconds,       \* argument of format_lrc_time
    ret,                \* outcome of parse_lrc_time: value or ValueError
    original_text,      \* merge_lyrics argument; also the text given to parse_lrc_content
    translated_text,    \* merge_lyrics argument
    lyrics,             \* list returned by parse_lrc_content(original_text)
    printed,            \* tokens named by the warnings print() has written
    original_lyrics,    \* merge_lyrics local
    translated_lyrics,  \* merge_lyrics local
    original_dict,      \* merge_lyrics local: time -> content
    translated_dict,    \* merge_lyrics local: time -> content
    all_times,          \* merge_lyrics local
    merged_lines        \* list returned by merge_lyrics

vars == <<pc, time_str, milliseconds, ret, original_text, translated_text,
          lyrics, printed, original_lyrics, translated_lyrics, original_dict,
          translated_dict, all_times, merged_lines>>

codecVars == <<time_str, milliseconds, ret>>
docVars == <<original_text, translated_text, lyrics, printed, original_lyrics,
             translated_lyrics, original_dict, translated_dict, all_times,
             merged_lines>>

---------------------------------------------------------------------------
(* Bounds of the drawn inputs.                                             *)

\* longest minutes / seconds field of a drawn timecode
MaxIntLen == 2
\* longest fraction field of a drawn timecode
MaxFracLen == 4
\* most tokens in a drawn document of the parser
MaxTokens == 4
\* most lines in each drawn text of the merger
MaxLines == 2

---------------------------------------------------------------------------
(* Python str and int primitives.                                          *)

DigitChars == <<"0", "1", "2", "3", "4", "5", "6", "7", "8", "9">>

IsDigit(c) == \E i \in 1..10 : DigitChars[i] = c

DigitVal(c) == (CHOOSE i \in 1..10 : DigitChars[i] = c) - 1

\* str.strip() without argument removes whitespace
Whitespace == {" ", "\n", "\t", "\r"}

Min(a, b) == IF a < b THEN a ELSE b

Last(s) == s[Len(s)]

Front(s) == SubSeq(s, 1, Len(s) - 1)

RECURSIVE LStrip(_, _)
LStrip(s, cs) ==
    IF s # <<>> /\ Head(s) \in cs THEN LStrip(Tail(s), cs) ELSE s

RECURSIVE RStrip(_, _)
RStrip(s, cs) ==
    IF s # <<>> /\ Last(s) \in cs THEN RStrip(Front(s), cs) ELSE s

\* s.strip(cs)
Strip(s, cs) == RStrip(LStrip(s, cs), cs)

\* s.find(c) + 1: index of the first c in s, 0 when there is none
Find(s, c) ==
    IF \E i \in 1..Len(s) : s[i] = c
    THEN CHOOSE i \in 1..Len(s) : s[i] = c /\ \A j \in 1..(i - 1) : s[j] # c
    ELSE 0

RECURSIVE DecVal(_)
DecVal(ds) == IF ds = <<>> THEN 0 ELSE DecVal(Front(ds)) * 10 + DigitVal(Last(ds))

Ok(v) == [ok |-> TRUE, val |-> v, err |-> <<>>]

\* a raised ValueError carrying the offending text
Fail(s) == [ok |-> FALSE, val |-> 0, err |-> s]

\* int(s) on a str: surrounding whitespace, one optional sign, then digits.
\* (Underscore digit separators and non-ASCII digits are outside the alphabet.)
PyInt(s) ==
    LET t == Strip(s, Whitespace)
        signed == t # <<>> /\ Head(t) \in {"+", "-"}
        ds == IF signed THEN Tail(t) ELSE t
    IN  IF ds = <<>> \/ \E i \in 1..Len(ds) : ~IsDigit(ds[i])
        THEN Fail(s)
        ELSE Ok(IF signed /\ Head(t) = "-" THEN 0 - DecVal(ds) ELSE DecVal(ds))

RECURSIVE ToDigits(_)
ToDigits(n) ==
    IF n < 10 THEN <<DigitChars[n + 1]>>
    ELSE ToDigits(n \div 10) \o <<DigitChars[(n % 10) + 1]>>

RECURSIVE ZeroPad(_, _)
ZeroPad(ds, w) == IF Len(ds) >= w THEN ds ELSE ZeroPad(<<"0">> \o ds, w)

\* format(n, "0<w>d"): the sign counts in the width
FormatInt(n, w) ==
    IF n < 0 THEN <<"-">> \o ZeroPad(ToDigits(0 - n), w - 1)
    ELSE ZeroPad(ToDigits(n), w)

---------------------------------------------------------------------------
(* Timecode codec.                                                         *)

\* ParseFraction without the x10 scaling of a 2-digit fraction
ParseFractionUnscaled(frac) == PyInt(SubSeq(frac, 1, Min(3, Len(frac))))

\* the fraction branch with a single digit read as tenths of a second
ParseFractionTenths(frac) ==
    IF Len(frac) = 2
    THEN LET r == PyInt(frac) IN IF r.ok THEN Ok(r.val * 10) ELSE r
    ELSE IF Len(frac) = 1
    THEN LET r == PyInt(frac) IN IF r.ok THEN Ok(r.val * 100) ELSE r
    ELSE PyInt(SubSeq(frac, 1, Min(3, Len(frac))))

\* the fraction branch of parse_lrc_time, lines 28-31
ParseFraction(frac) ==
    IF Len(frac) = 2
    THEN LET r == PyInt(frac) IN IF r.ok THEN Ok(r.val * 10) ELSE r
    ELSE PyInt(SubSeq(frac, 1, Min(3, Len(frac))))

\* LRCParser.parse_lrc_time
ParseLrcTime(s) ==
    LET t == Strip(s, {"[", "]"})
        c == Find(t, ":")
    IN  IF c = 0 THEN Fail(t)
        ELSE
          LET minutes == SubSeq(t, 1, c - 1)
              rest == SubSeq(t, c + 1, Len(t))
              d == Find(rest, ".")
              seconds == IF d > 0 THEN SubSeq(rest, 1, d - 1) ELSE rest
              ms == IF d > 0 THEN ParseFraction(SubSeq(rest, d + 1, Len(rest)))
                    ELSE Ok(0)
              mi == PyInt(minutes)
              se == PyInt(seconds)
          IN  IF ms.ok /\ mi.ok /\ se.ok
              THEN Ok(mi.val * 60000 + se.val * 1000 + ms.val)
              ELSE Fail(t)

\* format_lrc_time writing the milliseconds with width 2 instead of 3
FormatLrcTimeShortMillis(ms) ==
    LET minutes == ms \div 60000
        seconds == (ms % 60000) \div 1000
        millis == ms % 1000
    IN  <<"[">> \o FormatInt(minutes, 2) \o <<":">> \o FormatInt(seconds, 2)
        \o <<".">> \o FormatInt(millis, 2) \o <<"]">>

\* LRCParser.format_lrc_time
FormatLrcTime(ms) ==
    LET minutes == ms \div 60000
        seconds == (ms % 60000) \div 1000
        millis == ms % 1000
    IN  <<"[">> \o FormatInt(minutes, 2) \o <<":">> \o FormatInt(seconds, 2)
        \o <<".">> \o FormatInt(millis, 3) \o <<"]">>

---------------------------------------------------------------------------
(* Drawn inputs of the codec.                                              *)

\* the strings of at most n characters
StringsUpTo(chars, n) == UNION {[1..k -> chars] : k \in 0..n}

IntFields == StringsUpTo({"5", "-"}, MaxIntLen)

FracFields == StringsUpTo({"0", "5", "-"}, MaxFracLen)

\* the texts drawn for the fields m, s, f: with and without brackets,
\* without fraction, without ':'
TimeInputs(m, s, f) ==
    {m \o <<":">> \o s \o <<".">> \o f,
     <<"[">> \o m \o <<":">> \o s \o <<".">> \o f \o <<"]">>,
     m \o <<":">> \o s,
     m \o s}

MinuteInputs == {0, 1, 9, 10, 99, 100, 35790}

MilliInputs == {0, 1, 5, 9, 10, 50, 99, 100, 500, 990, 999}

MsInputs == {m * 60000 + s * 1000 + f : m \in MinuteInputs, s \in 0..59, f \in MilliInputs}

NoDocs ==
    /\ original_text = <<>>
    /\ translated_text = <<>>
    /\ lyrics = <<>>
    /\ printed = <<>>
    /\ original_lyrics = <<>>
    /\ translated_lyrics = <<>>
    /\ original_dict = <<>>
    /\ translated_dict = <<>>
    /\ all_times = <<>>
    /\ merged_lines = <<>>

InitCodec ==
    /\ \/ /\ pc = "decode"
          /\ \E m \in IntFields, s \in IntFields, f \in FracFields :
                time_str \in TimeInputs(m, s, f)
          /\ milliseconds = 0
       \/ pc = "encode" /\ time_str = <<>> /\ milliseconds \in MsInputs
    /\ ret = Fail(<<>>)
    /\ NoDocs

\* a call of parse_lrc_time(time_str)
ParseTime ==
    /\ pc \in {"decode", "encoded"}
    /\ ret' = ParseLrcTime(time_str)
    /\ pc' = IF pc = "decode" THEN "decoded" ELSE "roundtrip"
    /\ UNCHANGED <<time_str, milliseconds>>
    /\ UNCHANGED docVars

\* a call of format_lrc_time(milliseconds)
FormatTime ==
    /\ pc = "encode"
    /\ time_str' = FormatLrcTime(milliseconds)
    /\ pc' = "encoded"
    /\ UNCHANGED <<milliseconds, ret>>
    /\ UNCHANGED docVars

NextCodec == ParseTime \/ FormatTime

SpecCodec == InitCodec /\ [][NextCodec]_vars

---------------------------------------------------------------------------
(* Document parser.                                                        *)

\* end of the run of \d characters of s that starts at i (i when there is none)
RECURSIVE DigitRunEnd(_, _)
DigitRunEnd(s, i) ==
    IF i <= Len(s) /\ IsDigit(s[i]) THEN DigitRunEnd(s, i + 1) ELSE i

\* the pattern \[(\d+:\d+\.\d+)\] matched at position i of s: the position
\* of its closing bracket, 0 when it does not match there
TagEnd(s, i) ==
    IF i > Len(s) \/ s[i] # "[" THEN 0
    ELSE LET a == DigitRunEnd(s, i + 1) IN
         IF a = i + 1 \/ a > Len(s) \/ s[a] # ":" THEN 0
         ELSE LET b == DigitRunEnd(s, a + 1) IN
              IF b = a + 1 \/ b > Len(s) \/ s[b] # "." THEN 0
              ELSE LET c == DigitRunEnd(s, b + 1) IN
                   IF c = b + 1 \/ c > Len(s) \/ s[c] # "]" THEN 0 ELSE c

\* a scan that gives up the rest of the line at a '[' that opens no timecode
RECURSIVE FindAllTagsUntilBad(_, _)
FindAllTagsUntilBad(s, i) ==
    IF i > Len(s) THEN <<>>
    ELSE LET e == TagEnd(s, i) IN
         IF e > 0 THEN <<SubSeq(s, i + 1, e - 1)>> \o FindAllTagsUntilBad(s, e + 1)
         ELSE IF s[i] = "[" THEN <<>>
         ELSE FindAllTagsUntilBad(s, i + 1)

\* re.findall(pattern, s) from position i on: the captured groups, left to
\* right, matches not overlapping
RECURSIVE FindAllTags(_, _)
FindAllTags(s, i) ==
    IF i > Len(s) THEN <<>>
    ELSE LET e == TagEnd(s, i) IN
         IF e > 0 THEN <<SubSeq(s, i + 1, e - 1)>> \o FindAllTags(s, e + 1)
         ELSE FindAllTags(s, i + 1)

\* re.sub(pattern, '', s) from position i on: one pass over s
RECURSIVE RemoveTags(_, _)
RemoveTags(s, i) ==
    IF i > Len(s) THEN <<>>
    ELSE LET e == TagEnd(s, i) IN
         IF e > 0 THEN RemoveTags(s, e + 1)
         ELSE <<s[i]>> \o RemoveTags(s, i + 1)

\* s.split('\n')
RECURSIVE SplitLines(_)
SplitLines(s) ==
    LET n == Find(s, "\n") IN
    IF n = 0 THEN <<s>>
    ELSE <<SubSeq(s, 1, n - 1)>> \o SplitLines(SubSeq(s, n + 1, Len(s)))

\* the loop over time_matches, lines 86-95: acc holds the list and the
\* warnings so far
RECURSIVE AppendMatches(_, _, _)
AppendMatches(acc, matches, content) ==
    IF matches = <<>> THEN acc
    ELSE LET r == ParseLrcTime(Head(matches))
             next == IF r.ok
                     THEN [acc EXCEPT !.lyrics =
                              Append(@, [time |-> r.val, content |-> content])]
                     ELSE [acc EXCEPT !.printed = Append(@, Head(matches))]
         IN  AppendMatches(next, Tail(matches), content)

\* the body of the loop over lines, lines 76-95
ParseLine(acc, raw) ==
    LET line == Strip(raw, Whitespace)
        time_matches == FindAllTags(line, 1)
        content == Strip(RemoveTags(line, 1), Whitespace)
    IN  IF line = <<>> \/ time_matches = <<>> \/ content = <<>> THEN acc
        ELSE AppendMatches(acc, time_matches, content)

RECURSIVE ParseLines(_, _)
ParseLines(acc, lines) ==
    IF lines = <<>> THEN acc ELSE ParseLines(ParseLine(acc, Head(lines)), Tail(lines))

\* a sort that puts an entry before the entries of equal time
InsertBeforeEqual(sorted, e) ==
    LET k == Cardinality({i \in 1..Len(sorted) : sorted[i].time < e.time})
    IN  SubSeq(sorted, 1, k) \o <<e>> \o SubSeq(sorted, k + 1, Len(sorted))

\* e goes after every entry whose time is not greater: list.sort is stable
InsertByTime(sorted, e) ==
    LET k == Cardinality({i \in 1..Len(sorted) : sorted[i].time <= e.time})
    IN  SubSeq(sorted, 1, k) \o <<e>> \o SubSeq(sorted, k + 1, Len(sorted))

\* lyrics.sort(key=lambda x: x['time'])
RECURSIVE SortByTime(_)
SortByTime(l) ==
    IF l = <<>> THEN <<>> ELSE InsertByTime(SortByTime(Front(l)), Last(l))

\* Each entry is {'time', 'content'}; pos is bookkeeping of the model, the
\* entry's index in the list before the sort, which the program does not keep.
WithPositions(l) ==
    [i \in 1..Len(l) |-> [time |-> l[i].time, content |-> l[i].content, pos |-> i]]

\* LRCParser.parse_lrc_content: the returned list and the warnings printed
ParseLrcContent(text) ==
    IF text = <<>> \/ Strip(text, Whitespace) = <<>>
    THEN [lyrics |-> <<>>, printed |-> <<>>]
    ELSE LET acc == ParseLines([lyrics |-> <<>>, printed |-> <<>>],
                               SplitLines(Strip(text, Whitespace)))
         IN  [lyrics |-> SortByTime(WithPositions(acc.lyrics)), printed |-> acc.printed]

---------------------------------------------------------------------------
(* Merger.                                                                 *)

Times(l) == {l[i].time : i \in 1..Len(l)}

\* a dict that keeps, for a repeated key, the first value given
DictOfFirst(l) ==
    [t \in Times(l) |->
        l[CHOOSE i \in 1..Len(l) :
            l[i].time = t /\ \A j \in 1..Len(l) : l[j].time = t => j >= i].content]

\* {lyric['time']: lyric['content'] for lyric in l}: a later entry
\* overwrites an earlier one of the same time
DictOf(l) ==
    [t \in Times(l) |->
        l[CHOOSE i \in 1..Len(l) :
            l[i].time = t /\ \A j \in 1..Len(l) : l[j].time = t => j <= i].content]

\* dict.get(t, '')
Get(d, t) == IF t \in DOMAIN d THEN d[t] ELSE <<>>

\* sorted(S) for a set of integers
Sorted(S) ==
    [k \in 1..Cardinality(S) |->
        CHOOSE x \in S : Cardinality({y \in S : y <= x}) = k]

\* one pass of the loop of merge_lyrics, lines 133-143: the line built for
\* time_ms, or the empty string where the loop continues without a line
MergedLine(time_ms, o_dict, t_dict) ==
    LET original_content == Get(o_dict, time_ms)
        translated_content == Get(t_dict, time_ms)
    IN  IF original_content # <<>> /\ translated_content # <<>>
        THEN FormatLrcTime(time_ms) \o <<" ">> \o original_content
             \o <<" ", "/", " ">> \o translated_content
        ELSE IF original_content # <<>>
        THEN FormatLrcTime(time_ms) \o <<" ">> \o original_content
        ELSE IF translated_content # <<>>
        THEN FormatLrcTime(time_ms) \o <<" ">> \o translated_content
        ELSE <<>>

IsLine(l) == l # <<>>

\* the loop of merge_lyrics, lines 131-145: the lines appended, in order
MergeLoop(times, o_dict, t_dict) ==
    SelectSeq([k \in 1..Len(times) |->
                  MergedLine(times[k], o_dict, t_dict)],
              IsLine)

\* all_times taken from the original alone
AllTimesOfOriginal(o_dict, t_dict) == Sorted(DOMAIN o_dict)

\* all_times as the two key lists one after the other, a shared time twice
AllTimesConcatenated(o_dict, t_dict) == Sorted(DOMAIN o_dict) \o Sorted(DOMAIN t_dict)

\* sorted(set(original_dict.keys()) | set(translated_dict.keys())), line 128
AllTimes(o_dict, t_dict) ==
    Sorted(DOMAIN o_dict \cup DOMAIN t_dict)

---------------------------------------------------------------------------
(* Drawn texts.                                                            *)

TagA == <<"[", "0", ":", "1", ".", "0", "0", "]">>
TagA3 == <<"[", "0", ":", "1", ".", "0", "0", "0", "]">>
TagB == <<"[", "0", ":", "2", ".", "0", "0", "]">>
BadTag == <<"[", "x", "]">>
TagC == <<"[", "0", ":", "3", ".", "0", "0", "]">>

\* pieces of a document of the parser: a line break, a blank, two tags, a
\* word, a bracketed token that is no timecode, and the two halves of TagA
Tokens ==
    {<<"\n">>, <<" ">>, TagA, TagB, <<"a">>, BadTag,
     <<"[", "0", ":">>, <<"1", ".", "0", "0", "]">>}

\* the pieces one after the other, sep between two of them
RECURSIVE Joined(_, _)
Joined(pieces, sep) ==
    IF pieces = <<>> THEN <<>>
    ELSE IF Len(pieces) = 1 THEN pieces[1]
    ELSE pieces[1] \o sep \o Joined(Tail(pieces), sep)

\* the sequences of at most n elements of S
SeqsUpTo(S, n) == UNION {[1..k -> S] : k \in 0..n}

\* lines of the original text given to the merger; the last has no text
OriginalLinePool ==
    {TagA \o <<"a">>, TagA3 \o <<"b">>, TagB \o <<"a">>,
     TagB \o TagA \o <<"b">>, TagA}

\* lines of the translated text given to the merger
TranslatedLinePool == {TagA \o <<"c">>, TagA3 \o <<"d">>, TagC \o <<"c">>}

NoCodec ==
    /\ time_str = <<>>
    /\ milliseconds = 0
    /\ ret = Fail(<<>>)

Init ==
    /\ pc = "start"
    /\ \/ /\ \E ts \in SeqsUpTo(Tokens, MaxTokens) : original_text = Joined(ts, <<>>)
          /\ translated_text = <<>>
       \/ /\ \E ls \in SeqsUpTo(OriginalLinePool, MaxLines) :
                original_text = Joined(ls, <<"\n">>)
          /\ \E ls \in SeqsUpTo(TranslatedLinePool, MaxLines) :
                translated_text = Joined(ls, <<"\n">>)
    /\ lyrics = <<>>
    /\ printed = <<>>
    /\ original_lyrics = <<>>
    /\ translated_lyrics = <<>>
    /\ original_dict = <<>>
    /\ translated_dict = <<>>
    /\ all_times = <<>>
    /\ merged_lines = <<>>
    /\ NoCodec

\* a call of parse_lrc_content(original_text)
ParseContent ==
    /\ pc = "start"
    /\ \E r \in {ParseLrcContent(original_text)} :
          lyrics' = r.lyrics /\ printed' = r.printed
    /\ pc' = "parsed"
    /\ UNCHANGED <<original_text, translated_text, original_lyrics, translated_lyrics,
                   original_dict, translated_dict, all_times, merged_lines>>
    /\ UNCHANGED codecVars

\* a call of merge_lyrics(original_text, translated_text), lines 120-147
Merge ==
    /\ pc = "start"
    /\ \E o \in {ParseLrcContent(original_text)},
          t \in {ParseLrcContent(translated_text)} :
          /\ original_lyrics' = o.lyrics
          /\ translated_lyrics' = t.lyrics
          /\ printed' = o.printed \o t.printed
    /\ original_dict' = DictOf(original_lyrics')
    /\ translated_dict' = DictOf(translated_lyrics')
    /\ all_times' = AllTimes(original_dict', translated_dict')
    /\ merged_lines' = MergeLoop(all_times', original_dict', translated_dict')
    /\ pc' = "merged"
    /\ UNCHANGED <<original_text, translated_text, lyrics>>
    /\ UNCHANGED codecVars

Next == ParseContent \/ Merge

Spec == Init /\ [][Next]_vars

---------------------------------------------------------------------------
(* Timecodes as the specification describes them, read off the text        *)
(* without the decoder: MM:SS or MM:SS.F, brackets optional.               *)

IsNatText(f) == f # <<>> /\ \A i \in 1..Len(f) : IsDigit(f[i])

Unbracketed(s) ==
    IF Len(s) >= 2 /\ Head(s) = "[" /\ Last(s) = "]" THEN SubSeq(s, 2, Len(s) - 1) ELSE s

\* b reads as M ":" S when q = 0, as M ":" S "." F when q > 0
ReadsAsTimecode(b, p, q) ==
    /\ p \in 1..Len(b) /\ b[p] = ":"
    /\ IsNatText(SubSeq(b, 1, p - 1))
    /\ \/ q = 0 /\ IsNatText(SubSeq(b, p + 1, Len(b)))
       \/ /\ q \in (p + 1)..Len(b) /\ b[q] = "."
          /\ IsNatText(SubSeq(b, p + 1, q - 1))
          /\ IsNatText(SubSeq(b, q + 1, Len(b)))

IsTimecode(s) ==
    LET b == Unbracketed(s) IN \E p, q \in 0..Len(b) : ReadsAsTimecode(b, p, q)

\* milliseconds the specification gives a fraction of two or more digits
FractionMillis(f) ==
    IF Len(f) = 2 THEN (DigitVal(f[1]) * 10 + DigitVal(f[2])) * 10
    ELSE DigitVal(f[1]) * 100 + DigitVal(f[2]) * 10 + DigitVal(f[3])

\* "MM:SS.ff" -> "MM:SS.ff0", inside the brackets when there are any
WithThirdDigitZero(s) ==
    IF s # <<>> /\ Last(s) = "]" THEN Front(s) \o <<"0", "]">> ELSE s \o <<"0">>

---------------------------------------------------------------------------
(* Claims about the codec, checked under SpecCodec.                        *)

\* C1: decoding the text that format_lrc_time produced for ms returns ms.
C1_RoundTrip == pc = "roundtrip" => ret = Ok(milliseconds)

\* the largest drawn ms, five-digit minutes, has made the round trip
C1_Witness ==
    /\ pc = "roundtrip"
    /\ milliseconds = 2147459999
    /\ time_str = <<"[", "3", "5", "7", "9", "0", ":", "5", "9", ".", "9", "9", "9", "]">>
    /\ ret.ok /\ ret.val = 2147459999

\* C2: parse_lrc_time raises for every text whose minutes, seconds or
\* fraction is not a non-negative integer or whose ':' is missing, so every
\* value it returns is >= 0.
C2_RejectsNonNatural ==
    pc = "decoded" =>
        /\ ~IsTimecode(time_str) => ~ret.ok
        /\ ret.ok => ret.val >= 0

\* C3: a valid timecode M:S[.F] decodes to M*60000 + S*1000 + f, f = 0
\* without fraction, int(F)*10 for two digits, the first three digits of F
\* for three or more; and "M:S.ff" decodes like "M:S.ff0".
C3_DecodeValue ==
    pc = "decoded" =>
        LET b == Unbracketed(time_str) IN
        \A p, q \in 0..Len(b) :
            LET m == SubSeq(b, 1, p - 1)
                s == IF q = 0 THEN SubSeq(b, p + 1, Len(b)) ELSE SubSeq(b, p + 1, q - 1)
                f == SubSeq(b, q + 1, Len(b))
            IN  (ReadsAsTimecode(b, p, q) /\ (q = 0 \/ Len(f) >= 2)) =>
                    /\ ret = Ok(DecVal(m) * 60000 + DecVal(s) * 1000
                                + (IF q = 0 THEN 0 ELSE FractionMillis(f)))
                    /\ (q > 0 /\ Len(f) = 2) =>
                            ParseLrcTime(WithThirdDigitZero(time_str)) = ret

\* a four-digit fraction was cut to 055, where rounding would give 056
C3_Witness ==
    /\ pc = "decoded"
    /\ time_str = <<"5", ":", "5", ".", "0", "5", "5", "5">>
    /\ ret.ok /\ ret.val = 305055

\* C11: a fraction of exactly one digit d is taken as d milliseconds, not
\* as tenths of a second: "M:S.d" decodes to M*60000 + S*1000 + d, while
\* "M:S.d0" and "M:S.d00" both decode to M*60000 + S*1000 + d*100.
C11_OneDigitFraction ==
    pc = "decoded" =>
        LET b == Unbracketed(time_str) IN
        \A p \in {x \in 1..Len(b) : b[x] = ":"}, q \in {x \in 1..Len(b) : b[x] = "."} :
            (ReadsAsTimecode(b, p, q) /\ q = Len(b) - 1) =>
                \A whole \in {DecVal(SubSeq(b, 1, p - 1)) * 60000
                               + DecVal(SubSeq(b, p + 1, q - 1)) * 1000},
                   d \in {DigitVal(b[Len(b)])} :
                    /\ ret = Ok(whole + d)
                    /\ ParseLrcTime(b \o <<"0">>) = Ok(whole + d * 100)
                    /\ ParseLrcTime(b \o <<"0", "0">>) = Ok(whole + d * 100)

\* "5:5.5" was decoded to 305005: the 5 counted as 5 ms, not as 500 ms
C11_Witness ==
    /\ pc = "decoded"
    /\ time_str = <<"5", ":", "5", ".", "5">>
    /\ ret.ok /\ ret.val = 305005

---------------------------------------------------------------------------
(* Documents as the specification describes them, read off the text by     *)
(* position, without the scanner of the parser.                            *)

\* s is a bracketed timecode [digits:digits.digits]
IsTagText(s) ==
    /\ Len(s) >= 2 /\ Head(s) = "[" /\ Last(s) = "]"
    /\ \A r \in 2..(Len(s) - 1) : IsDigit(s[r]) \/ s[r] \in {":", "."}
    /\ LET b == SubSeq(s, 2, Len(s) - 1)
       IN  \E p \in {x \in 1..Len(b) : b[x] = ":"},
              q \in {x \in 1..Len(b) : b[x] = "."} : ReadsAsTimecode(b, p, q)

\* <<i, j>>: a bracketed timecode lies at positions i..j of T
TagSpans(T) ==
    LET opens == {i \in 1..Len(T) : T[i] = "["}
        closes == {j \in 1..Len(T) : T[j] = "]"}
    IN  {sp \in opens \X closes :
            sp[1] < sp[2] /\ IsTagText(SubSeq(T, sp[1], sp[2]))}

\* milliseconds of the timecode at sp, by the rule of C3
TagMillis(T, sp) ==
    LET b == SubSeq(T, sp[1] + 1, sp[2] - 1)
        p == CHOOSE i \in 1..Len(b) : b[i] = ":"
        q == CHOOSE i \in 1..Len(b) : b[i] = "."
    IN  DecVal(SubSeq(b, 1, p - 1)) * 60000 + DecVal(SubSeq(b, p + 1, q - 1)) * 1000
        + FractionMillis(SubSeq(b, q + 1, Len(b)))

Trimmed(s) ==
    LET solid == {i \in 1..Len(s) : s[i] \notin Whitespace}
    IN  IF solid = {} THEN <<>>
        ELSE SubSeq(s, CHOOSE i \in solid : \A j \in solid : i <= j,
                       CHOOSE i \in solid : \A j \in solid : i >= j)

\* T with every character of the timecodes (spans) blanked out to ""
WithoutSpans(T, spans) ==
    LET covered == UNION {sp[1]..sp[2] : sp \in spans}
    IN  [r \in 1..Len(T) |-> IF r \in covered THEN "" ELSE T[r]]

\* display text of the line of T that holds position i: the line, between
\* the line breaks (at the positions nls) around i, without the timecodes
\* lying in it (blanked out in cut), trimmed
LineTextAt(T, i, nls, cut) ==
    LET before == {0} \cup {r \in nls : r < i}
        after == {Len(T) + 1} \cup {r \in nls : r > i}
        first == 1 + CHOOSE a \in before : \A r \in before : r <= a
        last == (CHOOSE e \in after : \A r \in after : e <= r) - 1
    IN  Trimmed(SelectSeq(SubSeq(cut, first, last), LAMBDA c : c # ""))

\* the timecodes of T: where each stands, its time, the text of its line
Timecodes(T) ==
    UNION {UNION {{[at |-> sp[1], time |-> TagMillis(T, sp),
                    text |-> LineTextAt(T, sp[1], nls, cut)] : sp \in spans} :
                  cut \in {WithoutSpans(T, spans)},
                  nls \in {{r \in 1..Len(T) : T[r] = "\n"}}} :
           spans \in {TagSpans(T)}}

\* the timecodes of T that lie on a line with non-empty display text
Occurrences(T) == {o \in Timecodes(T) : o.text # <<>>}

\* the one of a non-empty set of timecodes that comes last in the text
LastOf(codes) == CHOOSE c \in codes : \A o \in codes : o.at <= c.at

\* "<timecode> <primary>[ / <secondary>]", an absent side given as <<>>
ExpectedLine(t, primary, secondary) ==
    IF primary # <<>> /\ secondary # <<>>
    THEN FormatLrcTime(t) \o <<" ">> \o primary \o <<" ", "/", " ">> \o secondary
    ELSE FormatLrcTime(t) \o <<" ">> \o primary \o secondary

---------------------------------------------------------------------------
(* Claims about the merger and the parser, checked under Spec.             *)

\* C4: merge_lyrics returns one line per timestamp of the union of the two
\* parsed documents, ascending, none repeated, none from elsewhere; the line
\* of t is "<encode(t)> <primary> / <secondary>", or carries the one side
\* that has t.
C4_MergeUnion ==
    pc = "merged" =>
        LET U == Times(original_lyrics) \cup Times(translated_lyrics)
            texts(l, t) == {l[i].content : i \in {j \in 1..Len(l) : l[j].time = t}}
        IN  /\ Len(merged_lines) = Cardinality(U)
            /\ \A k \in 1..Len(merged_lines) :
                 \E t \in U :
                    /\ Cardinality({u \in U : u <= t}) = k
                    /\ \E p \in texts(original_lyrics, t) \cup {<<>>},
                          s \in texts(translated_lyrics, t) \cup {<<>>} :
                          /\ p = <<>> <=> t \notin Times(original_lyrics)
                          /\ s = <<>> <=> t \notin Times(translated_lyrics)
                          /\ merged_lines[k] = ExpectedLine(t, p, s)

\* a merge with a line of both sides, one of the original, one of the translation
C4_Witness ==
    /\ pc = "merged"
    /\ original_text = TagA \o <<"a", "\n">> \o TagB \o <<"a">>
    /\ translated_text = TagA \o <<"c", "\n">> \o TagC \o <<"c">>
    /\ merged_lines =
         << <<"[", "0", "0", ":", "0", "1", ".", "0", "0", "0", "]", " ", "a", " ", "/", " ", "c">>,
            <<"[", "0", "0", ":", "0", "2", ".", "0", "0", "0", "]", " ", "a">>,
            <<"[", "0", "0", ":", "0", "3", ".", "0", "0", "0", "]", " ", "c">> >>

\* C5: the number of merged lines is at most the distinct timestamps of A
\* plus those of B, and equals the sum exactly when A and B share none.
C5_MergeLength ==
    pc = "merged" =>
        LET TA == Times(original_lyrics)
            TB == Times(translated_lyrics)
        IN  /\ Len(merged_lines) <= Cardinality(TA) + Cardinality(TB)
            /\ Len(merged_lines) = Cardinality(TA) + Cardinality(TB)
                  <=> TA \cap TB = {}

\* two timestamps on each side, one of them shared: three lines, not four
C5_Witness ==
    /\ pc = "merged"
    /\ Cardinality(Times(original_lyrics)) = 2
    /\ Cardinality(Times(translated_lyrics)) = 2
    /\ Cardinality(Times(original_lyrics) \cap Times(translated_lyrics)) = 1
    /\ Len(merged_lines) = 3

\* t occurs more than once among the timecodes
Repeated(codes, t) == Cardinality({c \in codes : c.time = t}) >= 2

\* text of the line of the last of the timecodes that carries t, <<>> when
\* none does
LastText(codes, t) ==
    LET carrying == {c \in codes : c.time = t}
    IN  IF carrying = {} THEN <<>> ELSE LastOf(carrying).text

\* C6 as stated: for a timestamp that occurs more than once on a side and
\* has text on some line, the merged line carries for that side the text of
\* the last line of the input that carries the timestamp.
C6_LastLineWins ==
    pc = "merged" =>
        \A A \in {Timecodes(original_text)}, B \in {Timecodes(translated_text)} :
        \A t \in {c.time : c \in {d \in A \cup B : d.text # <<>>}} :
            (Repeated(A, t) \/ Repeated(B, t)) =>
                \E k \in 1..Len(merged_lines) :
                    /\ k <= Len(all_times) /\ all_times[k] = t
                    /\ merged_lines[k] = ExpectedLine(t, LastText(A, t), LastText(B, t))

\* C6 amended: for a timestamp that occurs more than once on a side, the
\* merged line carries for each side the text of the last line with
\* non-empty text that carries the timestamp, and there is no line for it
\* when neither side has such a line.
C6_LastNonEmptyLineWins ==
    pc = "merged" =>
        \A A \in {Timecodes(original_text)}, B \in {Timecodes(translated_text)} :
        \A t \in {c.time : c \in A \cup B} :
            (Repeated(A, t) \/ Repeated(B, t)) =>
                \A p \in {LastText({c \in A : c.text # <<>>}, t)},
                   s \in {LastText({c \in B : c.text # <<>>}, t)} :
                    IF p = <<>> /\ s = <<>>
                    THEN \A k \in 1..Len(all_times) : all_times[k] # t
                    ELSE \E k \in 1..Len(merged_lines) :
                            /\ k <= Len(all_times) /\ all_times[k] = t
                            /\ merged_lines[k] = ExpectedLine(t, p, s)

\* 1000 ms twice in the original, as [0:1.00] and as [0:1.000]: the later text wins
C6_Witness ==
    /\ pc = "merged"
    /\ original_text = TagA \o <<"a", "\n">> \o TagA3 \o <<"b">>
    /\ translated_text = <<>>
    /\ merged_lines =
         << <<"[", "0", "0", ":", "0", "1", ".", "0", "0", "0", "]", " ", "b">> >>

\* C7: parse_lrc_content returns exactly one entry per valid timecode on a
\* line with non-empty text, with that timecode's time and that line's text,
\* in ascending order of time; tokens that are no timecode add no entry and
\* remove none.
C7_ValidEntriesKept ==
    pc = "parsed" =>
        \A occ \in {Occurrences(original_text)} :
            /\ Len(lyrics) = Cardinality(occ)
            /\ \A o \in occ :
                 Cardinality({k \in 1..Len(lyrics) :
                                 lyrics[k].time = o.time /\ lyrics[k].content = o.text})
                 = Cardinality({x \in occ : x.time = o.time /\ x.text = o.text})
            /\ \A k \in 1..(Len(lyrics) - 1) : lyrics[k].time <= lyrics[k + 1].time

\* [x] before two valid timecodes given out of order: both entries, sorted
C7_Witness ==
    /\ pc = "parsed"
    /\ original_text = BadTag \o TagB \o TagA \o <<"a">>
    /\ Len(lyrics) = 2
    /\ lyrics[1].time = 1000 /\ lyrics[2].time = 2000
    /\ lyrics[1].content = <<"[", "x", "]", "a">>

\* C8: every bracketed token of the text that parse_lrc_time rejects is
\* named by a printed warning.
C8_MalformedReported ==
    pc = "parsed" =>
        LET T == original_text IN
        \A i, j \in 1..Len(T) :
            (/\ i < j /\ T[i] = "[" /\ T[j] = "]"
             /\ \A r \in (i + 1)..(j - 1) : T[r] \notin {"[", "]", "\n"}
             /\ ~ParseLrcTime(SubSeq(T, i, j)).ok)
            => \E k \in 1..Len(printed) :
                  printed[k] \in {SubSeq(T, i, j), SubSeq(T, i + 1, j - 1)}

\* C9: every entry's text is non-empty, trimmed, and holds no timecode.
C9_TextsClean ==
    pc = "parsed" =>
        \A k \in 1..Len(lyrics) :
            LET c == lyrics[k].content
            IN  /\ c # <<>>
                /\ Head(c) \notin Whitespace /\ Last(c) \notin Whitespace
                /\ TagSpans(c) = {}

\* C10: the returned list ascends by time, and entries of equal time stand
\* in the order of their timecodes in the input.
C10_StableOrder ==
    pc = "parsed" =>
        \A occ \in {Occurrences(original_text)} :
            /\ \A k \in 1..(Len(lyrics) - 1) :
                 \/ lyrics[k].time < lyrics[k + 1].time
                 \/ /\ lyrics[k].time = lyrics[k + 1].time
                    /\ lyrics[k].pos < lyrics[k + 1].pos
            /\ \A k \in 1..Len(lyrics) :
                 \E o \in occ :
                    /\ Cardinality({x \in occ : x.at <= o.at}) = lyrics[k].pos
                    /\ o.time = lyrics[k].time
                    /\ o.text = lyrics[k].content

\* 2000 before 1000 on the first line, 1000 again on the second: the sort
\* moved 2000 last and kept the two entries of 1000 in input order
C10_Witness ==
    /\ pc = "parsed"
    /\ original_text = TagB \o TagA \o <<"b", "\n">> \o TagA \o <<"a">>
    /\ lyrics = << [time |-> 1000, content |-> <<"b">>, pos |-> 2],
                   [time |-> 1000, content |-> <<"a">>, pos |-> 3],
                   [time |-> 2000, content |-> <<"b">>, pos |-> 1] >>

=============================================================================
